---- MODULE Spec2Model ----
(***************************************************************************)
(* A model of compose-check.py: the lister (get_compose_ids), the status   *)
(* resolver (compose_status) and the aggregating/reporting entry point     *)
(* (cli).                                                                  *)
(*                                                                         *)
(* Python strings are modelled as sequences of one-character strings, so   *)
(* that prefix matching, rstrip, lower-casing, lexicographic comparison    *)
(* and strptime are computed character by character as the interpreter     *)
(* computes them.  Python's None is the one-element sequence None, which   *)
(* no text equals because every element of a text is one character.  A     *)
(* Python dict is a TLA+ function from its keys; the empty dict is <<>>.   *)
(*                                                                         *)
(* The remote server is the environment: each request is answered by an    *)
(* error or by one of a few bodies.  Logging, --debug and --input (loaded    *)
(* and logged, never used) change nothing the model keeps.  --output is    *)
(* taken at its default, so the YAML file is written whenever line 211 is  *)
(* reached, and writing a file does not fail.                              *)
(***************************************************************************)
EXTENDS Integers, Sequences, FiniteSets, TLC

VARIABLES
    pc,            \* position of the run inside cli / the lister call
    today,         \* cli: today = now.date(), as [y, m, d]
    html,          \* cli: whether --html was given
    page,          \* the hrefs of the anchors of the index page the server holds,
                   \* in document order; <<>> once cli has read and parsed it
    ids,           \* cli: ids, the list returned by get_compose_ids
    i,             \* cli: 1-based position of the for loop in ids
    statusResp,    \* the answer to the STATUS request, while compose_status
                   \* and the loop body work on it
    metaResp,      \* the same for the composeinfo.json request
    status,        \* status of compose_status, then of cli (line 171)
    date,          \* composedate of compose_status, then date of cli (lines
                   \* 171-179)
    comp_info,     \* cli: comp_info of the candidate processed last
    result,        \* cli: result (the three latest_* slots of the CheckResult)
    composes,      \* cli: results["composes"]
    statuses,      \* the status compose_status returned for each candidate so far
    metadates,     \* the date compose_status returned for each candidate so far
    exc,           \* the uncaught exception that ended the run, or None
    yaml_out,      \* content of the --output file, <<>> while not written
    html_out,      \* whether the --html file was rendered
    fetches        \* number of urlopen calls issued, per resource kind

vars == <<pc, today, html, page, ids, i, statusResp, metaResp, status, date,
          comp_info, result, composes, statuses, metadates, exc, yaml_out,
          html_out, fetches>>

----------------------------------------------------------------------------
(* Bounds of the model. *)

\* Longest index page (number of anchors) a cli run is started on.
MaxAnchors == 3

\* Longest index page the lister alone is applied to.
MaxPage == 3

----------------------------------------------------------------------------
(* Characters and strings. *)

None == <<"None">>

\* The characters the model uses, in code point order.
Ascii ==
    <<"\n", " ", "-", ".", "/",
      "0", "1", "2", "3", "4", "5", "6", "7", "8", "9", ":",
      "A", "B", "C", "D", "E", "F", "G", "H", "I", "J", "K", "L", "M",
      "N", "O", "P", "Q", "R", "S", "T", "U", "V", "W", "X", "Y", "Z",
      "_",
      "a", "b", "c", "d", "e", "f", "g", "h", "i", "j", "k", "l", "m",
      "n", "o", "p", "q", "r", "s", "t", "u", "v", "w", "x", "y", "z">>

\* ord(), up to the gaps between the characters used
OrdOf ==
    [c \in {Ascii[k] : k \in 1..Len(Ascii)} |->
        CHOOSE k \in 1..Len(Ascii) : Ascii[k] = c]

Ord(c) == OrdOf[c]

UpperFirst == Ord("A")
UpperLast == Ord("Z")
LowerFirst == Ord("a")

\* str.lower on one character
LowerChar(c) ==
    IF Ord(c) >= UpperFirst /\ Ord(c) <= UpperLast
    THEN Ascii[Ord(c) - UpperFirst + LowerFirst]
    ELSE c

\* str.lower
Lower(s) == [k \in 1..Len(s) |-> LowerChar(s[k])]

\* Python's < on str: lexicographic by code point, a proper prefix is smaller.
RECURSIVE StrLess(_, _)
StrLess(a, b) ==
    IF b = <<>> THEN FALSE
    ELSE IF a = <<>> THEN TRUE
    ELSE IF Ord(Head(a)) # Ord(Head(b)) THEN Ord(Head(a)) < Ord(Head(b))
    ELSE StrLess(Tail(a), Tail(b))

StartsWith(s, p) == Len(s) >= Len(p) /\ SubSeq(s, 1, Len(p)) = p

Digits == {"0", "1", "2", "3", "4", "5", "6", "7", "8", "9"}
Whitespace == {" ", "\n"}

\* str.rstrip(): drop the trailing whitespace
RECURSIVE RStrip(_)
RStrip(s) ==
    IF s # <<>> /\ s[Len(s)] \in Whitespace
    THEN RStrip(SubSeq(s, 1, Len(s) - 1))
    ELSE s

----------------------------------------------------------------------------
(* The run's parameters (--url, --name, --version). *)

Url == <<"h", ":", "/", "/", "o">>
Name == <<"A">>
Version == <<"1">>

\* "{name}-{version}-"
Prefix == Name \o <<"-">> \o Version \o <<"-">>

----------------------------------------------------------------------------
(* get_compose_ids *)

\* The greedy [^/]* of compose_re: the longest slash-free prefix of s.
RECURSIVE NoSlashRun(_)
NoSlashRun(s) ==
    IF s = <<>> \/ Head(s) = "/" THEN <<>>
    ELSE <<Head(s)>> \o NoSlashRun(Tail(s))

\* compose_re.search(href) finds a match: ^ anchors it at the start.  An anchor
\* without href is never selected by find_all("a", href=compose_re).
ComposeReMatches(href) == href # None /\ StartsWith(href, Prefix)

\* re.search(compose_re, link["href"]).group()
ComposeReGroup(href) ==
    Prefix \o NoSlashRun(SubSeq(href, Len(Prefix) + 1, Len(href)))

\* comp_links, then ids before sorting: one entry per selected anchor
RECURSIVE MatchedIds(_)
MatchedIds(hrefs) ==
    IF hrefs = <<>> THEN <<>>
    ELSE IF ComposeReMatches(Head(hrefs))
         THEN <<ComposeReGroup(Head(hrefs))>> \o MatchedIds(Tail(hrefs))
         ELSE MatchedIds(Tail(hrefs))

\* Fault variant of SortKey: the sort without key=str.lower.
SortKeyCaseSensitive(s) == s

\* the sort key, key=str.lower
SortKey(s) == Lower(s)

\* sorted(..., reverse=True) is stable: x goes before the first element whose
\* key is smaller, so equal keys keep their original order.
RECURSIVE InsertDesc(_, _)
InsertDesc(x, sorted) ==
    IF sorted = <<>> THEN <<x>>
    ELSE IF StrLess(SortKey(Head(sorted)), SortKey(x)) THEN <<x>> \o sorted
    ELSE <<Head(sorted)>> \o InsertDesc(x, Tail(sorted))

RECURSIVE SortedDesc(_)
SortedDesc(s) ==
    IF s = <<>> THEN <<>>
    ELSE InsertDesc(s[Len(s)], SortedDesc(SubSeq(s, 1, Len(s) - 1)))

get_compose_ids(hrefs) == SortedDesc(MatchedIds(hrefs))

----------------------------------------------------------------------------
(* compose_status *)

StatusError == [kind |-> "error", body |-> None]
StatusOk(b) == [kind |-> "ok", body |-> b]

S_FINISHED == <<"F", "I", "N", "I", "S", "H", "E", "D">>
S_FINISHED_INCOMPLETE ==
    S_FINISHED \o <<"_", "I", "N", "C", "O", "M", "P", "L", "E", "T", "E">>
S_DOOMED == <<"D", "O", "O", "M", "E", "D">>

\* What GET {url}/{id}/STATUS can answer: an error (unreachable host, 404, a
\* body that does not decode), or a text.
StatusResponses ==
    {StatusError,
     StatusOk(S_FINISHED \o <<"\n">>),
     StatusOk(S_FINISHED_INCOMPLETE),
     StatusOk(S_DOOMED \o <<"\n">>)}

\* Fault variant of StatusOf: a failed fetch yields the empty text, not None.
StatusOfEmptyOnError(resp) ==
    IF resp.kind = "ok" THEN RStrip(resp.body) ELSE <<>>

\* the first try block: status
StatusOf(resp) == IF resp.kind = "ok" THEN RStrip(resp.body) ELSE None

D_20240101 == <<"2", "0", "2", "4", "0", "1", "0", "1">>
D_20240230 == <<"2", "0", "2", "4", "0", "2", "3", "0">>

\* What GET {url}/{id}/compose/metadata/composeinfo.json can answer: an error,
\* a body json.loads rejects, a document without payload.compose.date, or a
\* document with it; doc is that value, a JSON null being Python's None.
MetaResponses ==
    {[kind |-> "error", doc |-> None],
     [kind |-> "notjson", doc |-> None],
     [kind |-> "nokey", doc |-> None],
     [kind |-> "json", doc |-> None],
     [kind |-> "json", doc |-> D_20240101],
     [kind |-> "json", doc |-> D_20240230]}

\* the second try block: composedate
ComposeDateOf(resp) == IF resp.kind = "json" THEN resp.doc ELSE None

NoResp == [kind |-> "none", body |-> None]
NoMeta == [kind |-> "none", doc |-> None]

----------------------------------------------------------------------------
(* The date of a candidate: date_re, strptime, the age. *)

At(s, k) == IF k >= 1 /\ k <= Len(s) THEN s[k] ELSE ""

\* .*$ : no newline, except one that ends the text
DotStarEnd(s) == \A k \in 1..Len(s) : s[k] = "\n" => k = Len(s)

\* re.search(date_re, id) finds a match
DateReMatches(id) ==
    /\ StartsWith(id, Prefix)
    /\ \A k \in 1..8 : At(id, Len(Prefix) + k) \in Digits
    /\ At(id, Len(Prefix) + 9) = "."
    /\ DotStarEnd(SubSeq(id, Len(Prefix) + 10, Len(id)))

\* match.group(1)
DateReGroup(id) == SubSeq(id, Len(Prefix) + 1, Len(Prefix) + 8)

\* Fault variant of ResolveDate: the identifier's date wins over the metadata.
ResolveDateIdFirst(d, id) ==
    IF DateReMatches(id) THEN DateReGroup(id) ELSE d

\* lines 172-183: the date after the fallback, None where the code reaches
\* logger.notice
ResolveDate(d, id) ==
    IF d # None THEN d
    ELSE IF DateReMatches(id) THEN DateReGroup(id)
    ELSE None

DigitVal(c) == Ord(c) - Ord("0")
NonZero == Digits \ {"0"}

\* %m is 1[0-2]|0[1-9]|[1-9]: the lengths it can take at position p, in the
\* order the regex engine tries them
MonthLens(s, p) ==
    (IF At(s, p) = "1" /\ At(s, p + 1) \in {"0", "1", "2"} THEN <<2>> ELSE <<>>)
    \o (IF At(s, p) = "0" /\ At(s, p + 1) \in NonZero THEN <<2>> ELSE <<>>)
    \o (IF At(s, p) \in NonZero THEN <<1>> ELSE <<>>)

\* %d is 3[01]|[12]\d|0[1-9]|[1-9]| [1-9]
DayLens(s, p) ==
    (IF At(s, p) = "3" /\ At(s, p + 1) \in {"0", "1"} THEN <<2>> ELSE <<>>)
    \o (IF At(s, p) \in {"1", "2"} /\ At(s, p + 1) \in Digits THEN <<2>> ELSE <<>>)
    \o (IF At(s, p) = "0" /\ At(s, p + 1) \in NonZero THEN <<2>> ELSE <<>>)
    \o (IF At(s, p) \in NonZero THEN <<1>> ELSE <<>>)
    \o (IF At(s, p) = " " /\ At(s, p + 1) \in NonZero THEN <<2>> ELSE <<>>)

\* int() of the digits of s from p, n of them, a leading blank ignored
RECURSIVE IntAt(_, _, _)
IntAt(s, p, n) ==
    IF n = 0 THEN 0
    ELSE IF At(s, p + n - 1) = " " THEN 0
    ELSE 10 * IntAt(s, p, n - 1) + DigitVal(At(s, p + n - 1))

IsLeap(y) == y % 4 = 0 /\ (y % 100 # 0 \/ y % 400 = 0)

DaysInMonth(y, m) ==
    IF m = 2 THEN (IF IsLeap(y) THEN 29 ELSE 28)
    ELSE IF m \in {4, 6, 9, 11} THEN 30
    ELSE 31

BadDate == [ok |-> FALSE, y |-> 0, m |-> 0, d |-> 0]

\* datetime.datetime.strptime(s, "%Y%m%d").date(): the format's regex is matched
\* at the start of s, the first month length after which a day matches wins, the
\* match must consume s, and the day must exist in the month.
StrpTime(s) ==
    IF \E k \in 1..4 : At(s, k) \notin Digits THEN BadDate
    ELSE
        LET ms == MonthLens(s, 5)
            good == {k \in 1..Len(ms) : DayLens(s, 5 + ms[k]) # <<>>}
        IN  IF good = {} THEN BadDate
            ELSE
                LET k == CHOOSE g \in good : \A h \in good : g <= h
                    ml == ms[k]
                    dl == Head(DayLens(s, 5 + ml))
                    y == IntAt(s, 1, 4)
                    m == IntAt(s, 5, ml)
                    d == IntAt(s, 5 + ml, dl)
                IN  IF 4 + ml + dl # Len(s) THEN BadDate
                    ELSE IF y < 1 \/ d > DaysInMonth(y, m) THEN BadDate
                    ELSE [ok |-> TRUE, y |-> y, m |-> m, d |-> d]

RECURSIVE DaysBeforeMonth(_, _)
DaysBeforeMonth(y, m) ==
    IF m = 1 THEN 0 ELSE DaysBeforeMonth(y, m - 1) + DaysInMonth(y, m - 1)

DaysBeforeYear(y) ==
    (y - 1) * 365 + ((y - 1) \div 4) - ((y - 1) \div 100) + ((y - 1) \div 400)

\* date.toordinal()
Ordinal(dt) == DaysBeforeYear(dt.y) + DaysBeforeMonth(dt.y, dt.m) + dt.d

\* Fault variant of Age: the difference taken the other way round.
AgeReversed(t, parsed) == Ordinal(parsed) - Ordinal(t)

\* (today - parsed_date).days
Age(t, parsed) == Ordinal(t) - Ordinal(parsed)

----------------------------------------------------------------------------
(* The inputs of a run. *)

H_20240101 ==
    Prefix \o <<"2", "0", "2", "4", "0", "1", "0", "1", ".", "0", "/">>
H_20240102 ==
    Prefix \o <<"2", "0", "2", "4", "0", "1", "0", "2", ".", "0", "/">>
\* a compose whose identifier embeds no date; it sorts after the dated ones
H_undated == Prefix \o <<"1", ".", "0", "/">>
\* an identifier that sorts before the dated ones
H_latest == Prefix \o <<"l", "a", "t", "e", "s", "t", "/">>
\* a link without a trailing slash, in upper case
H_Z == Prefix \o <<"Z">>
H_z == Prefix \o <<"z">>
\* a link below a compose directory
H_deep == H_20240102 \o <<"S", "T", "A", "T", "U", "S">>
\* the prefix in another case, and the prefix not at the start
H_lowercase == Lower(H_20240101)
H_parent == <<".", ".", "/">> \o H_20240101

\* hrefs of the index pages a cli run is started on
CliHrefs == {H_20240101, H_20240102, H_undated, H_parent}

\* hrefs of the index pages the lister alone is applied to; None is an anchor
\* without href
ListerHrefs ==
    {H_20240101, H_20240102, H_undated, H_latest, H_Z, H_z, H_deep,
     H_lowercase, H_parent, None}

SeqsUpTo(S, n) == UNION {[1..k -> S] : k \in 0..n}

Todays == {[y |-> 2024, m |-> 3, d |-> 1], [y |-> 2023, m |-> 12, d |-> 31]}

\* "{}-{} composes".format(name, version)
Description ==
    Name \o <<"-">> \o Version \o <<" ", "c", "o", "m", "p", "o", "s", "e", "s">>

\* result as lines 156-164 build it
EmptyResult ==
    [url |-> Url, name |-> Name, version |-> Version,
     description |-> Description,
     latest_attempted |-> <<>>, latest_finished |-> <<>>,
     latest_incomplete |-> <<>>]

NoFetches == [index |-> 0, status |-> 0, meta |-> 0]

\* cli, lines 130-166: the state before get_compose_ids is called
InitCommon ==
    /\ ids = <<>>
    /\ i = 0
    /\ statusResp = NoResp
    /\ metaResp = NoMeta
    /\ status = None
    /\ date = None
    /\ comp_info = <<>>
    /\ result = EmptyResult
    /\ composes = <<>>
    /\ statuses = <<>>
    /\ metadates = <<>>
    /\ exc = None
    /\ yaml_out = <<>>
    /\ html_out = FALSE
    /\ fetches = NoFetches

Init ==
    /\ pc = "start"
    /\ today \in Todays
    /\ html \in BOOLEAN
    /\ page \in SeqsUpTo(CliHrefs, MaxAnchors)
    /\ InitCommon

----------------------------------------------------------------------------
(* cli *)

\* a dict is true when it has a key
Truthy(dict) == DOMAIN dict # {}

\* "{}/{}/".format(url, id)
ComposeUrl(id) == Url \o <<"/">> \o id \o <<"/">>

CompInfo(id, st, d, age) ==
    [id |-> id, url |-> ComposeUrl(id), status |-> st, date |-> d, age |-> age]

\* Fault variant of SetAttempted: the slot is overwritten by every candidate.
SetAttemptedAlways(res, info) == [res EXCEPT !.latest_attempted = info]

\* lines 198-199
SetAttempted(res, info) ==
    IF ~Truthy(res.latest_attempted)
    THEN [res EXCEPT !.latest_attempted = info]
    ELSE res

\* Fault variant of SetFinished: a later FINISHED candidate replaces the slot.
SetFinishedAlways(res, info) ==
    IF info.status = S_FINISHED
    THEN [res EXCEPT !.latest_finished = info]
    ELSE res

\* lines 201-202
SetFinished(res, info) ==
    IF info.status = S_FINISHED /\ ~Truthy(res.latest_finished)
    THEN [res EXCEPT !.latest_finished = info]
    ELSE res

\* lines 204-205
SetIncomplete(res, info) ==
    IF info.status = S_FINISHED_INCOMPLETE /\ ~Truthy(res.latest_incomplete)
    THEN [res EXCEPT !.latest_incomplete = info]
    ELSE res

\* lines 198-205
Aggregate(res, info) == SetIncomplete(SetFinished(SetAttempted(res, info), info), info)

\* where the for loop of line 169 goes with k candidates done
LoopAt(list, k) == IF k > Len(list) THEN "report" ELSE "status"

E_URLError == <<"U", "R", "L", "E", "r", "r", "o", "r">>

\* Fault variant of FetchIndexFails: the failure is caught and the run goes on
\* with no candidates.
FetchIndexFailsSwallowed ==
    /\ pc = "start"
    /\ fetches' = [fetches EXCEPT !.index = @ + 1]
    /\ exc' = E_URLError
    /\ pc' = "report"
    /\ UNCHANGED <<today, html, page, ids, i, statusResp, metaResp, status,
                   date, comp_info, result, composes, statuses, metadates,
                   yaml_out, html_out>>

\* line 167 and get_compose_ids: the request of line 36 raises (the exception
\* leaves cli), or the page is parsed, filtered and sorted
FetchIndexFails ==
    /\ pc = "start"
    /\ fetches' = [fetches EXCEPT !.index = @ + 1]
    /\ exc' = E_URLError
    /\ pc' = "aborted"
    /\ UNCHANGED <<today, html, page, ids, i, statusResp, metaResp, status,
                   date, comp_info, result, composes, statuses, metadates,
                   yaml_out, html_out>>

FetchIndex ==
    /\ pc = "start"
    /\ fetches' = [fetches EXCEPT !.index = @ + 1]
    /\ ids' = get_compose_ids(page)
    /\ page' = <<>>
    /\ i' = 1
    /\ pc' = LoopAt(ids', 1)
    /\ UNCHANGED <<today, html, statusResp, metaResp, status, date,
                   comp_info, result, composes, statuses, metadates, exc,
                   yaml_out, html_out>>

\* compose_status, lines 62-68
FetchStatus ==
    /\ pc = "status"
    /\ \E resp \in StatusResponses :
        /\ statusResp' = resp
        /\ status' = StatusOf(resp)
    /\ statuses' = Append(statuses, status')
    /\ fetches' = [fetches EXCEPT !.status = @ + 1]
    /\ metaResp' = NoMeta
    /\ date' = None
    /\ pc' = "meta"
    /\ UNCHANGED <<today, html, page, ids, i, comp_info, result, composes,
                   metadates, exc, yaml_out, html_out>>

\* compose_status, lines 70-81
FetchMeta ==
    /\ pc = "meta"
    /\ \E resp \in MetaResponses :
        /\ metaResp' = resp
        /\ date' = ComposeDateOf(resp)
    /\ metadates' = Append(metadates, date')
    /\ fetches' = [fetches EXCEPT !.meta = @ + 1]
    /\ pc' = "resolved"
    /\ UNCHANGED <<today, html, page, ids, i, statusResp, status, comp_info,
                   result, composes, statuses, exc, yaml_out, html_out>>

Abort(name) ==
    /\ exc' = name
    /\ pc' = "aborted"
    /\ UNCHANGED <<today, html, page, ids, i, statusResp, metaResp, status,
                   comp_info, result, composes, statuses, metadates, yaml_out,
                   html_out, fetches>>

E_AttributeError ==
    <<"A", "t", "t", "r", "i", "b", "u", "t", "e", "E", "r", "r", "o", "r">>
E_ValueError == <<"V", "a", "l", "u", "e", "E", "r", "r", "o", "r">>

\* Fault variant of NoDate: the candidate is logged and skipped, as a working
\* log call followed by continue would do.
NoDateContinues ==
    /\ pc = "resolved"
    /\ ResolveDate(date, ids[i]) = None
    /\ date' = None
    /\ i' = i + 1
    /\ statusResp' = NoResp
    /\ metaResp' = NoMeta
    /\ pc' = LoopAt(ids, i')
    /\ UNCHANGED <<today, html, page, ids, status, comp_info, result,
                   composes, statuses, metadates, exc, yaml_out, html_out,
                   fetches>>

\* lines 172-183 where no date is found: logging.Logger has no method notice, so
\* line 182 raises AttributeError
NoDate ==
    /\ pc = "resolved"
    /\ ResolveDate(date, ids[i]) = None
    /\ date' = None
    /\ Abort(E_AttributeError)

\* line 185 where strptime rejects the date
BadDateValue ==
    /\ pc = "resolved"
    /\ ResolveDate(date, ids[i]) # None
    /\ ~StrpTime(ResolveDate(date, ids[i])).ok
    /\ date' = ResolveDate(date, ids[i])
    /\ Abort(E_ValueError)

\* lines 172-205 where the date parses: the rest of the loop body
Record ==
    /\ pc = "resolved"
    /\ ResolveDate(date, ids[i]) # None
    /\ StrpTime(ResolveDate(date, ids[i])).ok
    /\ date' = ResolveDate(date, ids[i])
    /\ comp_info' = CompInfo(ids[i], status, date', Age(today, StrpTime(date')))
    /\ result' = Aggregate(result, comp_info')
    /\ i' = i + 1
    /\ statusResp' = NoResp
    /\ metaResp' = NoMeta
    /\ pc' = LoopAt(ids, i')
    /\ UNCHANGED <<today, html, page, ids, status, composes, statuses,
                   metadates, exc, yaml_out, html_out, fetches>>

\* results; str(today) is kept as the date itself, and results["now"], the time
\* of day, is left out
Results(t, cs) == [today |-> t, composes |-> cs]

\* Fault variant of Report: an empty candidate list is treated as an error.
ReportRejectsEmpty ==
    /\ pc = "report"
    /\ IF ids = <<>>
       THEN /\ date' = date
            /\ Abort(E_ValueError)
       ELSE /\ composes' = Append(composes, result)
            /\ yaml_out' = [today |-> today, composes |-> composes']
            /\ pc' = IF html THEN "html" ELSE "done"
            /\ UNCHANGED <<today, html, page, ids, i, statusResp, metaResp,
                           status, date, comp_info, result, statuses,
                           metadates, exc, html_out, fetches>>

\* lines 207-214; --output defaults to status.yaml, so the file is written
Report ==
    /\ pc = "report"
    /\ composes' = Append(composes, result)
    /\ yaml_out' = Results(today, composes')
    /\ pc' = IF html THEN "html" ELSE "done"
    /\ UNCHANGED <<today, html, page, ids, i, statusResp, metaResp, status,
                   date, comp_info, result, statuses, metadates, exc, html_out,
                   fetches>>

\* lines 216-222
RenderHtml ==
    /\ pc = "html"
    /\ html_out' = TRUE
    /\ pc' = "done"
    /\ UNCHANGED <<today, html, page, ids, i, statusResp, metaResp, status,
                   date, comp_info, result, composes, statuses, metadates, exc,
                   yaml_out, fetches>>

Next ==
    \/ FetchIndexFails
    \/ FetchIndex
    \/ FetchStatus
    \/ FetchMeta
    \/ NoDate
    \/ BadDateValue
    \/ Record
    \/ Report
    \/ RenderHtml

Spec == Init /\ [][Next]_vars

----------------------------------------------------------------------------
(* get_compose_ids alone, applied to an index page. *)

ListerInit ==
    /\ pc = "lister"
    /\ today \in Todays
    /\ html = FALSE
    /\ page \in SeqsUpTo(ListerHrefs, MaxPage)
    /\ InitCommon

\* get_compose_ids, lines 36-48, the page kept beside the list it yields
ListIds ==
    /\ pc = "lister"
    /\ fetches' = [fetches EXCEPT !.index = @ + 1]
    /\ ids' = get_compose_ids(page)
    /\ pc' = "listed"
    /\ UNCHANGED <<today, html, page, i, statusResp, metaResp, status, date,
                   comp_info, result, composes, statuses, metadates, exc,
                   yaml_out, html_out>>

ListerNext == ListIds

ListerSpec == ListerInit /\ [][ListerNext]_vars

----------------------------------------------------------------------------
(* Properties. *)

Slots == {"latest_attempted", "latest_finished", "latest_incomplete"}

\* the date cli works with for candidate k: the metadata date, else the eight
\* digits that follow the prefix in the identifier
DateOfCandidate(k) ==
    IF metadates[k] # None THEN metadates[k]
    ELSE SubSeq(ids[k], Len(Prefix) + 1, Len(Prefix) + 8)

\* slot holds the ComposeInfo of candidate k
HoldsCandidate(slot, k) ==
    /\ Truthy(slot)
    /\ slot.id = ids[k]
    /\ slot.url = Url \o <<"/">> \o ids[k] \o <<"/">>
    /\ slot.status = statuses[k]
    /\ slot.date = DateOfCandidate(k)

\* C1: in a completed run with at least one candidate, latest_attempted is the
\* first candidate of the list get_compose_ids returned, whatever its status,
\* in cli's result and in the report written from it.
C1_LatestAttemptedIsNewest ==
    (pc = "done" /\ ids # <<>>) =>
        /\ HoldsCandidate(result.latest_attempted, 1)
        /\ Len(composes) = 1
        /\ composes[1].latest_attempted = result.latest_attempted
        /\ yaml_out.composes = composes

\* A completed run over three distinct candidates whose newest has no status,
\* whose second is FINISHED and whose oldest is FINISHED_INCOMPLETE.
C1_Witness ==
    /\ pc = "done"
    /\ Len(ids) = 3
    /\ ids[1] # ids[2] /\ ids[2] # ids[3]
    /\ statuses = <<None, S_FINISHED, S_FINISHED_INCOMPLETE>>
    /\ result.latest_attempted.id = ids[1]
    /\ result.latest_attempted.status = None
    /\ result.latest_finished.id = ids[2]
    /\ result.latest_incomplete.id = ids[3]

\* the candidates whose status equals token
WithStatus(token) == {k \in 1..Len(ids) : statuses[k] = token}

First(S) == CHOOSE k \in S : \A h \in S : k <= h

\* slot is the earliest candidate with status token, empty when there is none
NewestWithStatus(slot, token) ==
    IF WithStatus(token) = {} THEN ~Truthy(slot)
    ELSE HoldsCandidate(slot, First(WithStatus(token)))

\* C2: in a completed run, latest_finished is the earliest candidate of the
\* newest-first list whose status equals FINISHED and latest_incomplete the
\* earliest whose status equals FINISHED_INCOMPLETE; each is the empty mapping
\* exactly when no candidate has that status.
C2_LatestFinishedAndIncomplete ==
    pc = "done" =>
        /\ Len(statuses) = Len(ids)
        /\ NewestWithStatus(result.latest_finished, S_FINISHED)
        /\ NewestWithStatus(result.latest_incomplete, S_FINISHED_INCOMPLETE)
        /\ yaml_out.composes = <<result>>

\* A completed run whose newest candidate is DOOMED, whose two older, distinct
\* candidates are both FINISHED, and where nothing is FINISHED_INCOMPLETE.
C2_Witness ==
    /\ pc = "done"
    /\ Len(ids) = 3
    /\ ids[2] # ids[3]
    /\ statuses = <<S_DOOMED, S_FINISHED, S_FINISHED>>
    /\ result.latest_finished.id = ids[2]
    /\ result.latest_incomplete = <<>>

\* the number of positions of seq that satisfy Test
Count(seq, Test(_)) == Cardinality({k \in 1..Len(seq) : Test(seq[k])})

\* x is what ^name-version-[^/]* matches in href: href starts with the prefix, x
\* is the part of href before its first slash, or all of it
IsMatchedPrefix(x, href) ==
    /\ href # None
    /\ StartsWith(href, Prefix)
    /\ StartsWith(href, x)
    /\ \A k \in 1..Len(x) : x[k] # "/"
    /\ (Len(x) = Len(href) \/ href[Len(x) + 1] = "/")

\* neither identifier is smaller than the one after it, case ignored
SortedDescending(list) ==
    \A k \in 1..(Len(list) - 1) : ~StrLess(Lower(list[k]), Lower(list[k + 1]))

\* a and b are name-version-YYYYMMDD.* and differ at most in the eight digits
DifferOnlyInDate(a, b) ==
    /\ DateReMatches(a) /\ DateReMatches(b)
    /\ Len(a) = Len(b)
    /\ \A k \in 1..Len(a) :
        (k <= Len(Prefix) \/ k > Len(Prefix) + 8) => a[k] = b[k]

DateNumber(id) == IntAt(id, Len(Prefix) + 1, 8)

LaterDateFirst(list) ==
    \A a, b \in 1..Len(list) :
        (a < b /\ DifferOnlyInDate(list[a], list[b])) =>
            DateNumber(list[a]) >= DateNumber(list[b])

\* C3 as amended: get_compose_ids returns, for exactly the anchors whose href
\* matches ^name-version-[^/]*, the matched text (the href up to its first
\* slash), one entry per such anchor, sorted case-insensitively in descending
\* order, so that of two identifiers that differ only in their 8-digit date
\* the later date comes first.
C3_ListerReturnsMatchedPrefixesSorted ==
    pc = "listed" =>
        /\ \A x \in {ids[k] : k \in 1..Len(ids)} :
            Count(ids, LAMBDA e : e = x)
                = Count(page, LAMBDA h : IsMatchedPrefix(x, h))
        /\ Len(ids) = Count(page, LAMBDA h : h # None /\ StartsWith(h, Prefix))
        /\ SortedDescending(ids)
        /\ LaterDateFirst(ids)

\* A page that lists the older compose before the newer one, next to a link
\* that does not match.
C3_Witness ==
    /\ pc = "listed"
    /\ page = <<H_20240101, H_parent, H_20240102>>
    /\ ids = <<SubSeq(H_20240102, 1, Len(H_20240102) - 1),
               SubSeq(H_20240101, 1, Len(H_20240101) - 1)>>

\* C3 as stated: get_compose_ids returns exactly the hrefs that match
\* ^name-version-[^/]*, sorted case-insensitively in descending order.
C3_ListerReturnsMatchingHrefs ==
    pc = "listed" =>
        /\ \A x \in {ids[k] : k \in 1..Len(ids)} :
            Count(ids, LAMBDA e : e = x) = Count(page, LAMBDA h : h = x)
        /\ Len(ids) = Count(page, LAMBDA h : h # None /\ StartsWith(h, Prefix))
        /\ SortedDescending(ids)
        /\ LaterDateFirst(ids)

\* the STATUS fetch or its decoding failed
StatusFetchFailed == statusResp.kind # "ok"

\* the metadata fetch, its decoding or the lookup of payload.compose.date failed
MetaFetchFailed == metaResp.kind # "json"

\* compose_status has returned to line 171 for the current candidate
Resolved == pc = "resolved"

\* no exception left compose_status: a run that ended in one ended in cli's own
\* code, after both requests of the candidate were answered
NoRaiseInComposeStatus ==
    /\ pc \in {"meta", "resolved"} => exc = None
    /\ (pc = "aborted" /\ exc # E_URLError) =>
        /\ statusResp.kind # "none"
        /\ metaResp.kind # "none"
        /\ Len(statuses) = i /\ Len(metadates) = i

\* C4 as amended: for every combination of success and failure of the STATUS
\* fetch and the composeinfo.json fetch, compose_status returns without
\* raising: status is absent exactly when the STATUS fetch or decode failed,
\* date is absent exactly when the metadata fetch, decode or key lookup failed
\* or the document's payload.compose.date is null, neither outcome depends on
\* the other, and (None, None) is returned when both fail.
C4_ComposeStatusSwallowsFailures ==
    /\ NoRaiseInComposeStatus
    /\ Resolved =>
        /\ status = None <=> StatusFetchFailed
        /\ date = None <=> (MetaFetchFailed \/ metaResp.doc = None)
        /\ (StatusFetchFailed /\ MetaFetchFailed) => <<status, date>> = <<None, None>>
        /\ statuses[i] = status /\ metadates[i] = date

\* compose_status returns (None, None) after both requests failed.
C4_Witness ==
    /\ Resolved
    /\ statusResp.kind = "error"
    /\ metaResp.kind = "error"
    /\ status = None /\ date = None /\ exc = None

\* C4 as stated: date is absent exactly when the metadata fetch, decode or key
\* lookup failed.
C4_DateAbsentExactlyOnFailure ==
    Resolved => (date = None <=> MetaFetchFailed)

\* C5: the date cli records for a candidate is the metadata date whenever
\* compose_status returned one, even if the identifier embeds another date;
\* when the metadata date is absent and the identifier matches
\* name-version-YYYYMMDD.*, it is the eight digits of the identifier.  comp_info
\* is the record of candidate i - 1.
C5_MetadataDateTakesPrecedence ==
    Truthy(comp_info) =>
        /\ comp_info.id = ids[i - 1]
        /\ metadates[i - 1] # None => comp_info.date = metadates[i - 1]
        /\ (metadates[i - 1] = None /\ DateReMatches(ids[i - 1])) =>
            comp_info.date = SubSeq(ids[i - 1], Len(Prefix) + 1, Len(Prefix) + 8)

\* The candidate A-1-20240102.0 is recorded with the metadata date 20240101.
C5_Witness ==
    /\ Truthy(comp_info)
    /\ comp_info.id = SubSeq(H_20240102, 1, Len(H_20240102) - 1)
    /\ metadates[i - 1] = D_20240101
    /\ comp_info.date = D_20240101
    /\ result.latest_attempted = comp_info

\* C6: once the STATUS fetch of a candidate has failed, its status is absent
\* and the run does not end in an exception: it goes on to the report.
C6_StatusFailureRunReachesReport ==
    \A k \in 1..Len(statuses) :
        statuses[k] = None => pc # "aborted"

\* neither the metadata nor the identifier gives a date for candidate k, whose
\* two requests have been answered
NoDateAvailable(k) ==
    /\ k <= Len(metadates)
    /\ metadates[k] = None
    /\ ~DateReMatches(ids[k])

AllSlotsFilled == \A slot \in Slots : Truthy(result[slot])

NothingWritten == yaml_out = <<>> /\ html_out = FALSE /\ composes = <<>>

\* C7: a candidate for which neither a metadata date nor an
\* identifier-embedded date is available, at any position of the list, ends
\* the run: once compose_status has returned for it, cli is about to process
\* it or has raised an uncaught exception on it, no later candidate is looked
\* at and neither report is written.
C7_NoDateRaises ==
    \A k \in 1..Len(ids) :
        NoDateAvailable(k) =>
            /\ i = k
            /\ pc \in {"resolved", "aborted"}
            /\ pc = "aborted" =>
                /\ exc = E_AttributeError
                /\ ~ENABLED Next
            /\ NothingWritten

\* The third candidate has no date, after the first two filled all three
\* slots: the run ends in AttributeError with no report.
C7_Witness ==
    /\ pc = "aborted"
    /\ i = 3
    /\ NoDateAvailable(3)
    /\ AllSlotsFilled
    /\ exc = E_AttributeError
    /\ NothingWritten

\* C8: a failure of the index-page fetch is fatal: the exception leaves cli,
\* no STATUS or metadata request is issued, the index is requested once, and
\* no report is written.
C8_IndexFailureIsFatal ==
    /\ fetches.index <= 1
    /\ exc = E_URLError =>
        /\ pc = "aborted"
        /\ ~ENABLED Next
        /\ fetches = [index |-> 1, status |-> 0, meta |-> 0]
        /\ ids = <<>> /\ statuses = <<>> /\ metadates = <<>>
        /\ result = EmptyResult
        /\ NothingWritten
    /\ (pc = "start" /\ fetches.index = 0) \/ fetches.index = 1

\* The index fetch failed on a server that holds composes.
C8_Witness ==
    /\ pc = "aborted"
    /\ exc = E_URLError
    /\ \E k \in 1..Len(page) : ComposeReMatches(page[k])
    /\ fetches = [index |-> 1, status |-> 0, meta |-> 0]
    /\ NothingWritten

\* the index page was read and no href matched
ZeroCandidates == pc # "start" /\ exc # E_URLError /\ ids = <<>>

EmptyReport == Results(today, <<EmptyResult>>)

\* C9: with zero matching candidates the run is not an error: it requests
\* nothing more, raises nothing, runs to its end, and the report it writes has
\* one CheckResult whose three slots are empty.
C9_ZeroCandidatesIsNotAnError ==
    ZeroCandidates =>
        /\ pc \in {"report", "html", "done"}
        /\ pc = "done" \/ ENABLED Next
        /\ exc = None
        /\ fetches = [index |-> 1, status |-> 0, meta |-> 0]
        /\ result = EmptyResult
        /\ pc = "report" => yaml_out = <<>>
        /\ pc # "report" => yaml_out = EmptyReport
        /\ pc = "done" => html_out = html

\* A run over zero candidates has ended with the empty report written, in YAML
\* and in HTML.
C9_Witness ==
    /\ ZeroCandidates
    /\ pc = "done"
    /\ yaml_out = EmptyReport
    /\ \A slot \in Slots : yaml_out.composes[1][slot] = <<>>
    /\ html_out

\* a YYYYMMDD text as a calendar date
AsDate(s) == [y |-> IntAt(s, 1, 4), m |-> IntAt(s, 5, 2), d |-> IntAt(s, 7, 2)]

\* days from 1970-01-01 to dt in the proleptic Gregorian calendar, counted in
\* 400-year eras of 146097 days with the year taken to start in March
DaysFromCivil(dt) ==
    LET yy == IF dt.m <= 2 THEN dt.y - 1 ELSE dt.y
        era == yy \div 400
        yoe == yy - era * 400
        mp == (dt.m + 9) % 12
        doy == ((153 * mp + 2) \div 5) + dt.d - 1
        doe == yoe * 365 + (yoe \div 4) - (yoe \div 100) + doy
    IN  era * 146097 + doe - 719468

\* calendar days from dt to t, negative when dt is after t
CalendarDays(t, dt) == DaysFromCivil(t) - DaysFromCivil(dt)

WellDated(slot) ==
    Truthy(slot) =>
        /\ slot.date # None
        /\ Len(slot.date) = 8
        /\ slot.age = CalendarDays(today, AsDate(slot.date))

\* C10: at every point of the scan and in the written report, each non-empty
\* slot holds a ComposeInfo whose date is present and whose age is the number
\* of calendar days between the run's today and that date.
C10_SlotsAreDatedAndAged ==
    /\ \A slot \in Slots : WellDated(result[slot])
    /\ composes \in {<<>>, <<result>>}
    /\ yaml_out # <<>> =>
        /\ yaml_out.today = today
        /\ yaml_out.composes = <<result>>

\* The report of a run of 2024-03-01: the newest compose, dated by its
\* identifier, is 59 days old, the newest FINISHED one, dated by its metadata,
\* 60 days.
C10_Witness ==
    /\ pc = "done"
    /\ today = [y |-> 2024, m |-> 3, d |-> 1]
    /\ \A slot \in {"latest_attempted", "latest_finished"} :
        Truthy(yaml_out.composes[1][slot])
    /\ yaml_out.composes[1].latest_attempted.age = 59
    /\ yaml_out.composes[1].latest_finished.date = D_20240101
    /\ yaml_out.composes[1].latest_finished.age = 60

====
